---- MODULE Spec2Model ----
(***************************************************************************)
(* CoapWorkerPool (source/coap_core/coap_worker/coap_worker_pool.py): the  *)
(* dispatcher of a CoAP endpoint.  The pool owns the UDP socket, the       *)
(* ingress queue, the validated-packet queue, the shared-work maps, the    *)
(* worker list and the service threads.  CoapPacket, CoapWorker and        *)
(* CoapTransactionPool are collaborators whose code is outside the pool    *)
(* file; they are modelled from their specified interface.                 *)
(***************************************************************************)
EXTENDS Integers, Sequences, FiniteSets, Bags, TLC

\* ------------------------------------------------------------------ bounds
\* datagrams the socket delivers in one behaviour of Spec
MaxDatagrams == 3
\* datagrams the socket delivers in one behaviour of TxSpec
MaxTxDatagrams == 2
\* calls of handle_internal_task in one behaviour of TxSpec
MaxInternal == 1
\* threads of the application that call handle_internal_task concurrently
MaxCallers == 2

\* ------------------------------------------------------- program constants
max_queue_size == 20000
allowed_idle_time == 60
\* CoapTransactionPool: retransmission budget of a CON
MAX_RETRANSMIT == 4
\* option numbers of Block2 / Block1 (RFC 7959)
BLOCK2 == 23
BLOCK1 == 27
\* CoapPacket: no Block option in the packet
NO_OPTION == 0
\* Python's None, the value of long_term_work when no id was computed
None == <<>>

\* ------------------------------------------------------------------- state
VARIABLES
    received_packets,        \* Queue of (bytes, address) read from the socket
    valid_coap_packets,      \* Queue of validated CON packets
    short_term_shared_work,  \* keys of _short_term_shared_work
    long_term_shared_work,   \* keys of _long_term_shared_work
    failed_requests,         \* keys of _failed_requests
    workers,                 \* __workers: list of CoapWorker
    is_running,              \* __is_running
    CURRENT_TOKEN,           \* CoapWorkerPool.CURRENT_TOKEN
    transactions,            \* CoapTransactionPool: live transactions
    failed_overall,          \* CoapTransactionPool: failed overall transactions
    ff_pc, ff_packet,        \* coap_format_filter: position, packet in hand
    dd_pc, dd_packet,        \* deduplication_filter: position, packet in hand
    dd_worker,               \* deduplication_filter: worker the task went to
    wire,                    \* history: the bag of datagrams sent on the socket
    submitted,               \* history: every task handed to submit_task
    filtered,                \* history: every packet coap_format_filter took
    deduped,                 \* history: every packet deduplication_filter
                             \*   took and what it did with it
    started,                 \* history: tasks a worker has started to run
    removed,                 \* history: ids remove_*_work has popped so far
    reset_transactions,      \* history: the CONs that were registered when a
                             \*   RST of their exchange was processed
    arrivals,                \* datagrams delivered so far
    internals,               \* handle_internal_task calls so far
    created,                 \* CoapWorker objects constructed so far
    event_check_idle,        \* __event_check_idle is set
    event_handle_transactions, \* __event_handle_transactions is set
    stop_event,              \* __stop_event is set
    socket_open,             \* _socket has not been closed
    listen_pc,               \* listen: position
    ht_pc,                   \* handle_transactions: position
    ci_pc, ci_i,             \* check_idle_workers: position, list index
    stop_pc, stop_i,         \* __safe_stop: position, list index
    retired,                 \* history: workers check_idle_workers removed
    it_pc,                   \* handle_internal_task: position of each caller
    it_reg,                  \* __gen_token: the counter value a caller loaded
    it_tok,                  \* the token __gen_token returned to a caller
    it_worker,               \* _create_worker: the worker a caller has started
    tokens                   \* history: the result of every __gen_token call

vars == <<received_packets, valid_coap_packets, short_term_shared_work,
          long_term_shared_work, failed_requests, workers, is_running,
          CURRENT_TOKEN, transactions, failed_overall, ff_pc, ff_packet,
          dd_pc, dd_packet, dd_worker, wire, submitted, filtered, deduped,
          started, removed, reset_transactions, arrivals, internals,
          created, event_check_idle, event_handle_transactions, stop_event,
          socket_open, listen_pc, ht_pc, ci_pc, ci_i, stop_pc, stop_i,
          retired, it_pc, it_reg, it_tok, it_worker, tokens>>

\* the threads of the application that call handle_internal_task
Callers == 1..MaxCallers

caller_vars == <<it_pc, it_reg, it_tok, it_worker, tokens>>

\* the state of the pool's life cycle: events, socket, listen, the transaction
\* tick, the idle check and the stopper
life_vars == <<event_check_idle, event_handle_transactions, stop_event,
               socket_open, listen_pc, ht_pc, ci_pc, ci_i, stop_pc, stop_i,
               retired>>

\* --------------------------------------------------------------- CoapPacket
Packet(ver, ty, code, mid, tok, opt, num) ==
    [version |-> ver, message_type |-> ty, code |-> code, message_id |-> mid,
     token |-> tok, option |-> opt, num |-> num, peer |-> "peer"]

\* the datagrams a peer sends in the model
GET_CON      == Packet(1, "CON", "GET", 1, 0, NO_OPTION, 0)
BLOCK_0      == Packet(1, "CON", "CONTENT", 1, 1, BLOCK2, 0)
BLOCK_1      == Packet(1, "CON", "CONTENT", 2, 1, BLOCK2, 1)
BLOCK_2      == Packet(1, "CON", "CONTENT", 3, 1, BLOCK2, 2)
BAD_VERSION  == Packet(2, "CON", "GET", 1, 0, NO_OPTION, 0)
BAD_CODE     == Packet(1, "CON", "UNKNOWN", 2, 1, NO_OPTION, 0)
ACK_IN       == Packet(1, "ACK", "EMPTY", 7, 0, NO_OPTION, 0)
RST_IN       == Packet(1, "RST", "EMPTY", 9, 0, NO_OPTION, 0)
NON_IN       == Packet(1, "NON", "GET", 4, 1, NO_OPTION, 0)

\* what the peer sends in Spec (requests and block-wise responses) and in
\* TxSpec (the replies to this endpoint's own CONs)
Datagrams == {GET_CON, BLOCK_0, BLOCK_1, BLOCK_2, BAD_VERSION, RST_IN}
TxDatagrams == {ACK_IN, RST_IN, NON_IN, BAD_CODE}

short_term_work_id(p) == <<p.peer, p.message_id>>
long_term_work_id(p) == <<p.peer, p.token, p.option>>
general_work_id(p) == <<p.peer, p.token>>
has_option_block(p) == p.option \in {BLOCK1, BLOCK2}

\* ------------------------------------------------- CoapType, CoapCodeFormat
CoapType_is_valid(ty) == ty \in {"CON", "NON", "ACK", "RST"}
CoapCodeFormat_is_valid(code) ==
    code \in {"EMPTY", "GET", "POST", "PUT", "DELETE", "FETCH", "VALID",
              "CONTENT", "INTERNAL_SERVER_ERROR"}
CoapCodeFormat_is_method(code) ==
    code \in {"GET", "POST", "PUT", "DELETE", "FETCH"}
CoapCodeFormat_is_success(code) == code \in {"VALID", "CONTENT"}
CoapOptionDelta_is_valid(opt) == opt \in {NO_OPTION, BLOCK1, BLOCK2}

\* faulty variant: the version field is not checked
verify_format_NoVersion(task) ==
    ~ (\/ ~ CoapType_is_valid(task.message_type)
       \/ ~ CoapCodeFormat_is_valid(task.code)
       \/ ~ CoapOptionDelta_is_valid(task.option))

\* lines 33-40
verify_format(task) ==
    ~ (\/ task.version # 1
       \/ ~ CoapType_is_valid(task.message_type)
       \/ ~ CoapCodeFormat_is_valid(task.code)
       \/ ~ CoapOptionDelta_is_valid(task.option))

\* --------------------------------------------------------------- templates
\* CoapTemplates.X.value_with(token, message_id), as sent to sender_ip_port
Reply(ty, code, p, payload) ==
    [message_type |-> ty, code |-> code, token |-> p.token,
     message_id |-> p.message_id, payload |-> payload, to |-> p.peer]

EMPTY_ACK(p) == Reply("ACK", "EMPTY", p, None)
\* the ACK of a 2.05 CONTENT carries the block id as payload
SUCCESS_VALID_ACK(p) == Reply("ACK", "VALID", p, <<p.num>>)
\* NON_COAP_FORMAT with code set to 5.00
INVALID_FORMAT(p) == Reply("RST", "INTERNAL_SERVER_ERROR", p, None)

\* self._socket.sendto(packet.encode(), address)
sendto(sent, packet) == sent (+) SetToBag({packet})

\* faulty variant: the ACK does not echo the message id of the CON
AckFor_NoEcho(p) == EMPTY_ACK([p EXCEPT !.message_id = 0])

\* the ACK coap_format_filter builds for a CON (lines 173-180)
AckFor(p) ==
    IF CoapCodeFormat_is_method(p.code) THEN EMPTY_ACK(p)
    ELSE IF p.code = "CONTENT" THEN SUCCESS_VALID_ACK(p)
    ELSE EMPTY_ACK(p)

\* ------------------------------------------------------ CoapTransactionPool
\* a transaction: the CON kept for retransmission and its retransmission count
Transaction(p) == [packet |-> p, count |-> 0]

is_overall_transaction_failed(p) == general_work_id(p) \in failed_overall

\* finish_transaction: lookup by (remote_endpoint, message_id) and remove
finish_transaction(txs, ack) ==
    {t \in txs : short_term_work_id(t.packet) # short_term_work_id(ack)}

\* finish_overall_transaction: every transaction of the exchange is removed
finish_overall_transaction(txs, p) ==
    {t \in txs : general_work_id(t.packet) # general_work_id(p)}

\* ------------------------------------------------------------------ workers
\* CoapWorker(self).start(): heavy and idle stand for is_heavily_loaded() and
\* get_idle_time() > allowed_idle_time, stopped for stop() having been
\* called, alive for the worker thread not having ended
Worker(id) == [id |-> id, queue |-> <<>>, heavy |-> FALSE, idle |-> FALSE,
               stopped |-> FALSE, alive |-> TRUE]

is_heavily_loaded(w) == w.heavy
get_queue_size(w) == Len(w.queue)

\* indices of the workers _choose_worker's two filters let through
Available(ws) ==
    {i \in DOMAIN ws : /\ ~ is_heavily_loaded(ws[i])
                       /\ get_queue_size(ws[i]) < max_queue_size}

\* faulty variant: the first available worker, whatever its queue size
MinWorker_First(ws) ==
    IF Available(ws) = {} THEN 0
    ELSE CHOOSE i \in Available(ws) : \A j \in Available(ws) : i <= j

\* min(available_workers, default=None, key=get_queue_size): the first of the
\* least loaded; 0 stands for None
MinWorker(ws) ==
    IF Available(ws) = {} THEN 0
    ELSE CHOOSE i \in Available(ws) :
            \A j \in Available(ws) :
                \/ get_queue_size(ws[i]) < get_queue_size(ws[j])
                \/ get_queue_size(ws[i]) = get_queue_size(ws[j]) /\ i <= j

\* _create_worker appends a started worker to the list
create_worker(ws, id) == Append(ws, Worker(id))

\* the list after _choose_worker, and the index of the worker it returns
choose_worker_list(ws, id) ==
    IF MinWorker(ws) = 0 THEN create_worker(ws, id) ELSE ws
choose_worker_index(ws) ==
    IF MinWorker(ws) = 0 THEN Len(ws) + 1 ELSE MinWorker(ws)

submit_task(ws, i, p) ==
    [ws EXCEPT ![i].queue = Append(@, p), ![i].idle = FALSE]

\* -------------------------------------------------------------------- Init
\* lines 42-76: the pool as __init__ leaves it
Constructed ==
    /\ received_packets = <<>>
    /\ valid_coap_packets = <<>>
    /\ short_term_shared_work = {}
    /\ long_term_shared_work = {}
    /\ failed_requests = {}
    /\ workers = <<>>
    /\ is_running = TRUE
    /\ CURRENT_TOKEN = -1
    /\ transactions = {}
    /\ failed_overall = {}
    /\ event_check_idle = FALSE
    /\ event_handle_transactions = FALSE
    /\ stop_event = FALSE
    /\ socket_open = TRUE
    /\ ff_packet = None
    /\ dd_packet = None
    /\ dd_worker = 0
    /\ ci_i = 0
    /\ stop_i = 0
    /\ wire = EmptyBag
    /\ submitted = <<>>
    /\ filtered = <<>>
    /\ deduped = <<>>
    /\ started = <<>>
    /\ removed = {}
    /\ reset_transactions = {}
    /\ retired = {}
    /\ arrivals = 0
    /\ internals = 0
    /\ it_pc = [t \in Callers |-> "idle"]
    /\ it_reg = [t \in Callers |-> -1]
    /\ it_tok = [t \in Callers |-> None]
    /\ it_worker = [t \in Callers |-> 0]
    /\ tokens = <<>>
    /\ created = 0

\* the pool while it serves: listen() has started the stopper and the
\* background threads, and each is at the top of its loop
Init ==
    /\ Constructed
    /\ listen_pc = "select"
    /\ ff_pc = "get"
    /\ dd_pc = "get"
    /\ ht_pc = "wait"
    /\ ci_pc = "wait"
    /\ stop_pc = "wait"

\* the pool right after construction: no thread has been started
LifeInit ==
    /\ Constructed
    /\ listen_pc = "new"
    /\ ff_pc = "new"
    /\ dd_pc = "new"
    /\ ht_pc = "new"
    /\ ci_pc = "new"
    /\ stop_pc = "new"

\* ------------------------------------------------------------------ listen
\* lines 214-216: a datagram is read from the socket and queued
Receive(d, max) ==
    /\ listen_pc = "select"
    /\ socket_open
    /\ arrivals < max
    /\ UNCHANGED life_vars
    /\ arrivals' = arrivals + 1
    /\ received_packets' = Append(received_packets, d)
    /\ UNCHANGED <<valid_coap_packets, short_term_shared_work,
                   long_term_shared_work, failed_requests, workers, is_running,
                   CURRENT_TOKEN, transactions, failed_overall, ff_pc,
                   ff_packet, dd_pc, dd_packet, dd_worker, wire, submitted,
                   filtered, deduped, started, removed, reset_transactions, internals, caller_vars,
                   created>>

\* ------------------------------------------------------ coap_format_filter
\* history entry: the packet taken and what is_overall_transaction_failed
\* answered for it at that moment
Filtered(p) == [packet |-> p, failed |-> is_overall_transaction_failed(p)]

\* line 164: while self.__is_running, evaluated after an iteration
ff_loop == IF is_running THEN "get" ELSE "done"

ff_unchanged ==
    /\ UNCHANGED life_vars
    /\ UNCHANGED <<short_term_shared_work, long_term_shared_work, workers,
                is_running, CURRENT_TOKEN, dd_pc, dd_packet, dd_worker,
                submitted, deduped, started, removed, arrivals, internals, caller_vars,
                created>>

\* lines 164-166: the blocking get and the decode
FilterGet ==
    /\ ff_pc = "get"
    /\ received_packets # <<>>
    /\ ff_packet' = Head(received_packets)
    /\ received_packets' = Tail(received_packets)
    /\ ff_pc' = "verify"
    /\ UNCHANGED <<valid_coap_packets, failed_requests, transactions,
                   failed_overall, wire, filtered>>
    /\ UNCHANGED reset_transactions
    /\ ff_unchanged

\* lines 196-202: a packet that fails the format check is answered with 5.00
FilterInvalid ==
    /\ ff_pc = "verify"
    /\ ~ verify_format(ff_packet)
    /\ wire' = sendto(wire, INVALID_FORMAT(ff_packet))
    /\ filtered' = Append(filtered, Filtered(ff_packet))
    /\ ff_pc' = ff_loop
    /\ UNCHANGED <<received_packets, valid_coap_packets, failed_requests,
                   transactions, failed_overall, ff_packet>>
    /\ UNCHANGED reset_transactions
    /\ ff_unchanged

\* faulty variant: the CON of a failed overall transaction is acknowledged
FilterConFailed_Acked ==
    /\ ff_pc = "verify"
    /\ verify_format(ff_packet)
    /\ ff_packet.message_type = "CON"
    /\ is_overall_transaction_failed(ff_packet)
    /\ wire' = sendto(wire, AckFor(ff_packet))
    /\ filtered' = Append(filtered, Filtered(ff_packet))
    /\ ff_pc' = ff_loop
    /\ UNCHANGED <<received_packets, valid_coap_packets, failed_requests,
                   transactions, failed_overall, ff_packet>>
    /\ UNCHANGED reset_transactions
    /\ ff_unchanged

\* lines 171-172: a CON of a failed overall transaction is dropped
FilterConFailed ==
    /\ ff_pc = "verify"
    /\ verify_format(ff_packet)
    /\ ff_packet.message_type = "CON"
    /\ is_overall_transaction_failed(ff_packet)
    /\ filtered' = Append(filtered, Filtered(ff_packet))
    /\ ff_pc' = ff_loop
    /\ UNCHANGED <<received_packets, valid_coap_packets, failed_requests,
                   transactions, failed_overall, ff_packet, wire>>
    /\ UNCHANGED reset_transactions
    /\ ff_unchanged

\* faulty variant: the packet is queued for deduplication before its ACK is sent
FilterConAck_PutFirst ==
    /\ ff_pc = "verify"
    /\ verify_format(ff_packet)
    /\ ff_packet.message_type = "CON"
    /\ ~ is_overall_transaction_failed(ff_packet)
    /\ valid_coap_packets' = Append(valid_coap_packets, ff_packet)
    /\ filtered' = Append(filtered, Filtered(ff_packet))
    /\ ff_pc' = "put"
    /\ UNCHANGED <<received_packets, wire, failed_requests, transactions,
                   failed_overall, ff_packet>>
    /\ UNCHANGED reset_transactions
    /\ ff_unchanged

\* lines 172-182: the ACK is built and sent
FilterConAck ==
    /\ ff_pc = "verify"
    /\ verify_format(ff_packet)
    /\ ff_packet.message_type = "CON"
    /\ ~ is_overall_transaction_failed(ff_packet)
    /\ wire' = sendto(wire, AckFor(ff_packet))
    /\ filtered' = Append(filtered, Filtered(ff_packet))
    /\ ff_pc' = "put"
    /\ UNCHANGED <<received_packets, valid_coap_packets, failed_requests,
                   transactions, failed_overall, ff_packet>>
    /\ UNCHANGED reset_transactions
    /\ ff_unchanged

\* line 183: the packet is queued for deduplication
FilterConPut ==
    /\ ff_pc = "put"
    /\ valid_coap_packets' = Append(valid_coap_packets, ff_packet)
    /\ ff_pc' = ff_loop
    /\ UNCHANGED <<received_packets, failed_requests, transactions,
                   failed_overall, ff_packet, wire, filtered>>
    /\ UNCHANGED reset_transactions
    /\ ff_unchanged

\* lines 185-186
FilterAck ==
    /\ ff_pc = "verify"
    /\ verify_format(ff_packet)
    /\ ff_packet.message_type = "ACK"
    /\ transactions' = finish_transaction(transactions, ff_packet)
    /\ filtered' = Append(filtered, Filtered(ff_packet))
    /\ ff_pc' = ff_loop
    /\ UNCHANGED <<received_packets, valid_coap_packets, failed_requests,
                   failed_overall, ff_packet, wire>>
    /\ UNCHANGED reset_transactions
    /\ ff_unchanged

\* lines 188-189: the failure time of the exchange is recorded
FilterRst ==
    /\ ff_pc = "verify"
    /\ verify_format(ff_packet)
    /\ ff_packet.message_type = "RST"
    /\ failed_requests' = failed_requests \cup {general_work_id(ff_packet)}
    /\ ff_pc' = "rst_set"
    /\ UNCHANGED <<received_packets, valid_coap_packets, transactions,
                   failed_overall, ff_packet, wire, filtered>>
    /\ UNCHANGED reset_transactions
    /\ ff_unchanged

\* line 190
FilterRstSetFailure ==
    /\ ff_pc = "rst_set"
    /\ failed_overall' = failed_overall \cup {general_work_id(ff_packet)}
    /\ ff_pc' = "rst_finish"
    /\ UNCHANGED <<received_packets, valid_coap_packets, failed_requests,
                   transactions, ff_packet, wire, filtered>>
    /\ UNCHANGED reset_transactions
    /\ ff_unchanged

\* faulty variant: the overall transaction is marked failed but not finished
FilterRstFinish_NoFinish ==
    /\ ff_pc = "rst_finish"
    /\ reset_transactions' = reset_transactions \cup
           {t.packet : t \in {u \in transactions :
               general_work_id(u.packet) = general_work_id(ff_packet)}}
    /\ filtered' = Append(filtered, Filtered(ff_packet))
    /\ ff_pc' = ff_loop
    /\ UNCHANGED <<received_packets, valid_coap_packets, failed_requests,
                   failed_overall, ff_packet, wire, transactions>>
    /\ ff_unchanged

\* lines 191-192
FilterRstFinish ==
    /\ ff_pc = "rst_finish"
    /\ transactions' = finish_overall_transaction(transactions, ff_packet)
    /\ reset_transactions' = reset_transactions \cup
           {t.packet : t \in {u \in transactions :
               general_work_id(u.packet) = general_work_id(ff_packet)}}
    /\ filtered' = Append(filtered, Filtered(ff_packet))
    /\ ff_pc' = ff_loop
    /\ UNCHANGED <<received_packets, valid_coap_packets, failed_requests,
                   failed_overall, ff_packet, wire>>
    /\ ff_unchanged

\* lines 194-195: NON and anything else is ignored
FilterOther ==
    /\ ff_pc = "verify"
    /\ verify_format(ff_packet)
    /\ ff_packet.message_type \notin {"CON", "ACK", "RST"}
    /\ filtered' = Append(filtered, Filtered(ff_packet))
    /\ ff_pc' = ff_loop
    /\ UNCHANGED <<received_packets, valid_coap_packets, failed_requests,
                   transactions, failed_overall, ff_packet, wire>>
    /\ UNCHANGED reset_transactions
    /\ ff_unchanged

coap_format_filter ==
    \/ FilterGet \/ FilterInvalid \/ FilterConFailed \/ FilterConAck
    \/ FilterConPut \/ FilterAck \/ FilterRst \/ FilterRstSetFailure
    \/ FilterRstFinish \/ FilterOther

\* ---------------------------------------------------- deduplication_filter
\* line 133: while self.__is_running, evaluated after an iteration
dd_loop == IF is_running THEN "get" ELSE "done"

dd_unchanged ==
    /\ UNCHANGED life_vars
    /\ UNCHANGED <<received_packets, failed_requests, is_running, CURRENT_TOKEN,
                transactions, failed_overall, ff_pc, ff_packet, wire, filtered,
                started, removed, reset_transactions, arrivals, internals, caller_vars>>

\* lines 138-147: the ids the filter looks up
Work(p) == short_term_work_id(p)
LongTermWork(p) ==
    IF CoapCodeFormat_is_success(p.code) /\ has_option_block(p)
    THEN long_term_work_id(p) ELSE None

\* faulty variant: only the long-term map is consulted
NotShared_LongOnly(p, short, long) == LongTermWork(p) \notin long

\* lines 149-150: the packet is new work
NotShared(p, short, long) ==
    /\ Work(p) \notin short
    /\ LongTermWork(p) \notin long

\* lines 133-134: the blocking get
DedupGet ==
    /\ dd_pc = "get"
    /\ valid_coap_packets # <<>>
    /\ dd_packet' = Head(valid_coap_packets)
    /\ valid_coap_packets' = Tail(valid_coap_packets)
    /\ dd_pc' = "check"
    /\ UNCHANGED <<short_term_shared_work, long_term_shared_work, workers,
                   dd_worker, submitted, deduped, created>>
    /\ dd_unchanged

\* lines 149-152: new work goes to the chosen worker
DedupSubmit ==
    /\ dd_pc = "check"
    /\ NotShared(dd_packet, short_term_shared_work, long_term_shared_work)
    /\ dd_worker' = choose_worker_index(workers)
    /\ workers' = submit_task(choose_worker_list(workers, created + 1),
                              choose_worker_index(workers), dd_packet)
    /\ created' = Len(workers') - Len(workers) + created
    /\ submitted' = Append(submitted, dd_packet)
    /\ deduped' = Append(deduped, [op |-> "submit", packet |-> dd_packet])
    /\ dd_pc' = "insert"
    /\ UNCHANGED <<valid_coap_packets, short_term_shared_work,
                   long_term_shared_work, dd_packet>>
    /\ dd_unchanged

\* lines 154-157: one of the two ids is recorded
DedupInsert ==
    /\ dd_pc = "insert"
    /\ IF LongTermWork(dd_packet) # None
       THEN /\ long_term_shared_work' =
                   long_term_shared_work \cup {LongTermWork(dd_packet)}
            /\ UNCHANGED short_term_shared_work
       ELSE /\ short_term_shared_work' =
                   short_term_shared_work \cup {Work(dd_packet)}
            /\ UNCHANGED long_term_shared_work
    /\ dd_pc' = dd_loop
    /\ UNCHANGED <<valid_coap_packets, workers, dd_packet, dd_worker,
                   submitted, deduped, created>>
    /\ dd_unchanged

\* lines 158-159: a duplicate is logged and dropped
DedupDuplicate ==
    /\ dd_pc = "check"
    /\ ~ NotShared(dd_packet, short_term_shared_work, long_term_shared_work)
    /\ deduped' = Append(deduped, [op |-> "drop", packet |-> dd_packet])
    /\ dd_pc' = dd_loop
    /\ UNCHANGED <<valid_coap_packets, short_term_shared_work,
                   long_term_shared_work, workers, dd_packet, dd_worker,
                   submitted, created>>
    /\ dd_unchanged

deduplication_filter ==
    DedupGet \/ DedupSubmit \/ DedupInsert \/ DedupDuplicate

\* ----------------------------------------- remove_short/long_term_work
\* lines 81-83 and 85-87: the id is popped when the map holds it
remove_short_term_work(map, work_data) ==
    IF work_data \in map THEN map \ {work_data} ELSE map
remove_long_term_work(map, work_data) ==
    IF work_data \in map THEN map \ {work_data} ELSE map

\* -------------------------------------------------------------- CoapWorker
\* the worker takes the next task of its FIFO queue and runs the handler,
\* which may mark the task's short-term or long-term work as completed
WorkerRun(i, done_short, done_long) ==
    /\ i \in DOMAIN workers
    /\ workers[i].alive
    /\ workers[i].queue # <<>>
    /\ LET task == Head(workers[i].queue) IN
        /\ started' = Append(started, task)
        /\ short_term_shared_work' =
               IF done_short
               THEN remove_short_term_work(short_term_shared_work,
                                           short_term_work_id(task))
               ELSE short_term_shared_work
        /\ long_term_shared_work' =
               IF done_long
               THEN remove_long_term_work(long_term_shared_work,
                                          long_term_work_id(task))
               ELSE long_term_shared_work
        /\ removed' = removed
               \cup (short_term_shared_work \ short_term_shared_work')
               \cup (long_term_shared_work \ long_term_shared_work')
    /\ workers' = [workers EXCEPT ![i].queue = Tail(@)]
    /\ UNCHANGED life_vars
    /\ UNCHANGED <<received_packets, valid_coap_packets, failed_requests,
                   is_running, CURRENT_TOKEN, transactions, failed_overall,
                   ff_pc, ff_packet, dd_pc, dd_packet, dd_worker, wire,
                   submitted, filtered, deduped, reset_transactions, arrivals,
                   internals, caller_vars, created>>

\* ---------------------------------------------------- handle_internal_task
\* lines 27-30: the counter is advanced and returned as the token
gen_token(current) == current + 1

\* the request the application hands to the pool
InternalTask(mid) == Packet(1, "CON", "GET", mid, 0, NO_OPTION, 0)

\* lines 225-230
handle_internal_task(mid, needs_internal_computation) ==
    /\ internals < MaxInternal
    /\ UNCHANGED life_vars
    /\ UNCHANGED caller_vars
    /\ internals' = internals + 1
    /\ CURRENT_TOKEN' = gen_token(CURRENT_TOKEN)
    /\ LET task == [InternalTask(mid) EXCEPT !.token = CURRENT_TOKEN'] IN
        /\ IF needs_internal_computation
           THEN /\ workers' = submit_task(create_worker(workers, created + 1),
                                          Len(workers) + 1, task)
                /\ created' = created + 1
           ELSE UNCHANGED <<workers, created>>
        /\ transactions' = transactions \cup {Transaction(task)}
    /\ UNCHANGED <<received_packets, valid_coap_packets,
                   short_term_shared_work, long_term_shared_work,
                   failed_requests, is_running, failed_overall, ff_pc,
                   ff_packet, dd_pc, dd_packet, dd_worker, wire, submitted,
                   filtered, deduped, started, removed, reset_transactions,
                   arrivals>>

\* ------------------------------------- __gen_token, one bytecode at a time
\* line 30: int.to_bytes() with its defaults (length 1, big endian) raises
\* OverflowError unless the value fits one unsigned byte
to_bytes_raises(n) == n \notin 0..255
\* the 1-byte string, as the sequence of its byte values
to_bytes(n) == <<n>>

\* the entry of tokens for a call of caller t that returned bytes b
Returned(t, b) == [caller |-> t, raised |-> FALSE, bytes |-> b]
\* the entry of tokens for a call of caller t that ended in OverflowError
Raised(t) == [caller |-> t, raised |-> TRUE, bytes |-> <<>>]

gen_unchanged ==
    /\ UNCHANGED life_vars
    /\ UNCHANGED <<received_packets, valid_coap_packets,
                   short_term_shared_work, long_term_shared_work,
                   failed_requests, workers, is_running, transactions,
                   failed_overall, ff_pc, ff_packet, dd_pc, dd_packet,
                   dd_worker, wire, submitted, filtered, deduped, started,
                   removed, reset_transactions, arrivals, created>>

\* a thread calls CoapWorkerPool.__gen_token()
GenCall(t, max) ==
    /\ it_pc[t] = "idle"
    /\ Len(tokens) < max
    /\ it_pc' = [it_pc EXCEPT ![t] = "load"]
    /\ UNCHANGED <<CURRENT_TOKEN, internals, it_reg, it_tok, it_worker,
                   tokens>>
    /\ gen_unchanged

\* line 28, CURRENT_TOKEN += 1: the class attribute is loaded
GenLoad(t) ==
    /\ it_pc[t] = "load"
    /\ it_reg' = [it_reg EXCEPT ![t] = CURRENT_TOKEN]
    /\ it_pc' = [it_pc EXCEPT ![t] = "store"]
    /\ UNCHANGED <<CURRENT_TOKEN, internals, it_tok, it_worker, tokens>>
    /\ gen_unchanged

\* line 28, CURRENT_TOKEN += 1: the sum is stored
GenStore(t) ==
    /\ it_pc[t] = "store"
    /\ CURRENT_TOKEN' = gen_token(it_reg[t])
    /\ it_pc' = [it_pc EXCEPT ![t] = "reload"]
    /\ UNCHANGED <<internals, it_reg, it_tok, it_worker, tokens>>
    /\ gen_unchanged

\* line 29, CURRENT_TOKEN = CURRENT_TOKEN: the attribute is loaded again
GenReload(t) ==
    /\ it_pc[t] = "reload"
    /\ it_reg' = [it_reg EXCEPT ![t] = CURRENT_TOKEN]
    /\ it_pc' = [it_pc EXCEPT ![t] = "restore"]
    /\ UNCHANGED <<CURRENT_TOKEN, internals, it_tok, it_worker, tokens>>
    /\ gen_unchanged

\* line 29, CURRENT_TOKEN = CURRENT_TOKEN: the loaded value is stored
GenRestore(t) ==
    /\ it_pc[t] = "restore"
    /\ CURRENT_TOKEN' = it_reg[t]
    /\ it_pc' = [it_pc EXCEPT ![t] = "return"]
    /\ UNCHANGED <<internals, it_reg, it_tok, it_worker, tokens>>
    /\ gen_unchanged

\* line 30: the attribute is read once more and converted
GenReturn(t) ==
    /\ it_pc[t] = "return"
    /\ IF to_bytes_raises(CURRENT_TOKEN)
       THEN /\ it_pc' = [it_pc EXCEPT ![t] = "raised"]
            /\ tokens' = Append(tokens, Raised(t))
            /\ UNCHANGED it_tok
       ELSE /\ it_pc' = [it_pc EXCEPT ![t] = "token"]
            /\ it_tok' = [it_tok EXCEPT ![t] = to_bytes(CURRENT_TOKEN)]
            /\ tokens' = Append(tokens, Returned(t, to_bytes(CURRENT_TOKEN)))
    /\ UNCHANGED <<CURRENT_TOKEN, internals, it_reg, it_worker>>
    /\ gen_unchanged

\* the caller of __gen_token has its token
GenEnd(t) ==
    /\ it_pc[t] = "token"
    /\ it_pc' = [it_pc EXCEPT ![t] = "idle"]
    /\ UNCHANGED <<CURRENT_TOKEN, internals, it_reg, it_tok, it_worker,
                   tokens>>
    /\ gen_unchanged

\* lines 27-30
gen_token_steps(t) ==
    GenLoad(t) \/ GenStore(t) \/ GenReload(t) \/ GenRestore(t) \/ GenReturn(t)

\* --------------------------- handle_internal_task, as its callers run it
it_unchanged ==
    /\ UNCHANGED life_vars
    /\ UNCHANGED <<received_packets, valid_coap_packets,
                   short_term_shared_work, long_term_shared_work,
                   failed_requests, is_running, failed_overall, ff_pc,
                   ff_packet, dd_pc, dd_packet, dd_worker, wire, submitted,
                   filtered, deduped, started, removed, reset_transactions,
                   arrivals>>

\* the task of caller t once line 227 has assigned its token
TaskOf(t) == [InternalTask(7 + t) EXCEPT !.token = it_tok[t][1]]

\* line 227: the call enters __gen_token
ItCall(t, max) ==
    /\ it_pc[t] = "idle"
    /\ internals < max
    /\ internals' = internals + 1
    /\ it_pc' = [it_pc EXCEPT ![t] = "load"]
    /\ UNCHANGED <<CURRENT_TOKEN, workers, transactions, created, it_reg,
                   it_tok, it_worker, tokens>>
    /\ it_unchanged

\* lines 228-229, 91-92: the task needs internal computation, a CoapWorker is
\* constructed and started
ItStartWorker(t) ==
    /\ it_pc[t] = "token"
    /\ created' = created + 1
    /\ it_worker' = [it_worker EXCEPT ![t] = created + 1]
    /\ it_pc' = [it_pc EXCEPT ![t] = "append"]
    /\ UNCHANGED <<CURRENT_TOKEN, workers, transactions, internals, it_reg,
                   it_tok, tokens>>
    /\ it_unchanged

\* lines 94-96, 229: the worker is appended to the list and gets the task
ItAppend(t) ==
    /\ it_pc[t] = "append"
    /\ workers' = submit_task(create_worker(workers, it_worker[t]),
                              Len(workers) + 1, TaskOf(t))
    /\ it_pc' = [it_pc EXCEPT ![t] = "add"]
    /\ UNCHANGED <<CURRENT_TOKEN, transactions, internals, created, it_reg,
                   it_tok, it_worker, tokens>>
    /\ it_unchanged

\* line 228: the task needs no internal computation
ItNoWorker(t) ==
    /\ it_pc[t] = "token"
    /\ it_pc' = [it_pc EXCEPT ![t] = "add"]
    /\ UNCHANGED <<CURRENT_TOKEN, workers, transactions, internals, created,
                   it_reg, it_tok, it_worker, tokens>>
    /\ it_unchanged

\* line 230: add_transaction, and the call returns
ItAdd(t) ==
    /\ it_pc[t] = "add"
    /\ transactions' = transactions \cup {Transaction(TaskOf(t))}
    /\ it_pc' = [it_pc EXCEPT ![t] = "idle"]
    /\ UNCHANGED <<CURRENT_TOKEN, workers, internals, created, it_reg,
                   it_tok, it_worker, tokens>>
    /\ it_unchanged

\* lines 225-230 in the thread of caller t
internal_task_steps(t) ==
    \/ gen_token_steps(t)
    \/ ItStartWorker(t) \/ ItAppend(t) \/ ItNoWorker(t) \/ ItAdd(t)

\* ------------------------------------------------------ handle_transactions
\* the stored CON as it goes out again
Resend(t) == [message_type |-> "CON", code |-> t.packet.code,
              token |-> t.packet.token, message_id |-> t.packet.message_id,
              payload |-> None, to |-> t.packet.peer]

\* the re-sends of one solve_transactions() call
Resends(due) == SetToBag({Resend(t) : t \in due})

\* solve_transactions() on one due transaction: the count after the re-send
Retransmitted(t) == [t EXCEPT !.count = @ + 1]
\* the budget is exhausted: the transaction is abandoned
Exhausted(t) == t.count > MAX_RETRANSMIT

\* line 128, solve_transactions(): every transaction whose deadline has passed
\* (due) is re-sent and counted, and abandoned once its count exceeds
\* MAX_RETRANSMIT
solve_transactions(due) ==
    LET after == {Retransmitted(t) : t \in due} IN
    /\ wire' = wire (+) Resends(due)
    /\ transactions' = (transactions \ due) \cup {t \in after : ~ Exhausted(t)}
    /\ failed_overall' = failed_overall \cup
           {general_work_id(t.packet) : t \in {u \in after : Exhausted(u)}}
    /\ UNCHANGED <<received_packets, valid_coap_packets,
                   short_term_shared_work, long_term_shared_work,
                   failed_requests, workers, is_running, CURRENT_TOKEN,
                   ff_pc, ff_packet, dd_pc, dd_packet, dd_worker,
                   submitted, filtered, deduped, started, removed,
                   reset_transactions, arrivals, internals, caller_vars, created>>

\* lines 126-129 as one step: the event is set, the tick runs and finds some
\* transactions due
Tick ==
    /\ ht_pc = "wait"
    /\ \E due \in (SUBSET transactions) \ {{}} : solve_transactions(due)
    /\ UNCHANGED life_vars

\* -------------------------------------------------------------------- Spec
\* the ingress path: requests and block-wise responses of a peer go through
\* the format filter, the deduplication filter and the workers
Next ==
    \/ \E d \in Datagrams : Receive(d, MaxDatagrams)
    \/ FilterGet \/ FilterInvalid \/ FilterConFailed \/ FilterConAck
    \/ FilterConPut \/ FilterRst \/ FilterRstSetFailure \/ FilterRstFinish
    \/ deduplication_filter
    \/ \E i \in 1..MaxDatagrams, s \in BOOLEAN, l \in BOOLEAN : WorkerRun(i, s, l)

Spec == Init /\ [][Next]_vars

\* the reliability path: this endpoint's own CONs, their retransmission and
\* the peer's ACK and RST
TxNext ==
    \/ \E d \in TxDatagrams : Receive(d, MaxTxDatagrams)
    \/ FilterGet \/ FilterInvalid \/ FilterAck \/ FilterRst
    \/ FilterRstSetFailure \/ FilterRstFinish \/ FilterOther
    \/ \E i \in 1..MaxInternal, s \in BOOLEAN, l \in BOOLEAN : WorkerRun(i, s, l)
    \/ \E n \in BOOLEAN : handle_internal_task(7 + internals, n)
    \/ Tick

TxSpec == Init /\ [][TxNext]_vars

\* the token generator alone: one thread calls __gen_token over and over
MaxTokenCalls == 257

TokenNext ==
    \/ GenCall(1, MaxTokenCalls)
    \/ gen_token_steps(1)
    \/ GenEnd(1)

TokenSpec == Init /\ [][TokenNext]_vars

\* calls of handle_internal_task in one behaviour of CallerSpec
MaxCalls == 2

\* the application's threads call handle_internal_task concurrently
CallerNext ==
    \E t \in Callers : ItCall(t, MaxCalls) \/ internal_task_steps(t)

CallerSpec == Init /\ [][CallerNext]_vars

\* -------------------------------------------------------------- life cycle
\* datagrams the socket delivers in one behaviour of LifeSpec
MaxLifeDatagrams == 1
LifeDatagrams == {GET_CON}

queue_vars == <<received_packets, valid_coap_packets>>
map_vars == <<short_term_shared_work, long_term_shared_work, failed_requests>>
tx_vars == <<CURRENT_TOKEN, transactions, failed_overall, wire,
             reset_transactions, internals, caller_vars>>
filter_vars == <<ff_packet, dd_packet, dd_worker>>
log_vars == <<submitted, filtered, deduped, started, removed, created>>
event_vars == <<event_check_idle, event_handle_transactions, stop_event>>
idle_vars == <<ci_pc, ci_i, retired>>
stopper_vars == <<stop_pc, stop_i>>

\* lines 205-208: listen() starts the stopper and the background threads
ListenStart ==
    /\ listen_pc = "new"
    /\ listen_pc' = "loop"
    /\ stop_pc' = "wait"
    /\ ci_pc' = "wait"
    /\ ff_pc' = "start"
    /\ dd_pc' = "start"
    /\ ht_pc' = "wait"
    /\ UNCHANGED <<queue_vars, map_vars, tx_vars, filter_vars, log_vars,
                   event_vars, workers, is_running, arrivals, socket_open,
                   ci_i, retired, stop_i>>

\* line 164: the first test of the loop condition
FilterStart ==
    /\ ff_pc = "start"
    /\ ff_pc' = ff_loop
    /\ UNCHANGED <<received_packets, valid_coap_packets, failed_requests,
                   transactions, failed_overall, ff_packet, wire, filtered,
                   reset_transactions>>
    /\ ff_unchanged

\* line 133: the first test of the loop condition
DedupStart ==
    /\ dd_pc = "start"
    /\ dd_pc' = dd_loop
    /\ UNCHANGED <<valid_coap_packets, short_term_shared_work,
                   long_term_shared_work, workers, dd_packet, dd_worker,
                   submitted, deduped, created>>
    /\ dd_unchanged

listen_unchanged ==
    UNCHANGED <<valid_coap_packets, map_vars, tx_vars, filter_vars, log_vars,
                workers, is_running, socket_open, ff_pc, dd_pc, ht_pc,
                idle_vars, stopper_vars>>

\* line 210: while self.__is_running
ListenLoop ==
    /\ listen_pc = "loop"
    /\ listen_pc' = IF is_running THEN "select" ELSE "set_stop"
    /\ UNCHANGED <<received_packets, arrivals, event_vars>>
    /\ listen_unchanged

\* lines 212-214: select returns after its timeout with nothing to read
ListenTimeout ==
    /\ listen_pc = "select"
    /\ socket_open
    /\ listen_pc' = "set_tx"
    /\ UNCHANGED <<received_packets, arrivals, event_vars>>
    /\ listen_unchanged

\* lines 212-216: a datagram is read from the socket and queued
ListenRecv(d) ==
    /\ listen_pc = "select"
    /\ socket_open
    /\ arrivals < MaxLifeDatagrams
    /\ arrivals' = arrivals + 1
    /\ received_packets' = Append(received_packets, d)
    /\ listen_pc' = "set_tx"
    /\ UNCHANGED event_vars
    /\ listen_unchanged

\* lines 211-221: select on the closed socket raises, the error is swallowed
ListenException ==
    /\ listen_pc = "select"
    /\ ~ socket_open
    /\ listen_pc' = "loop"
    /\ UNCHANGED <<received_packets, arrivals, event_vars>>
    /\ listen_unchanged

\* line 218
ListenSetTx ==
    /\ listen_pc = "set_tx"
    /\ event_handle_transactions' = TRUE
    /\ listen_pc' = "set_idle"
    /\ UNCHANGED <<received_packets, arrivals, event_check_idle, stop_event>>
    /\ listen_unchanged

\* line 219
ListenSetIdle ==
    /\ listen_pc = "set_idle"
    /\ event_check_idle' = TRUE
    /\ listen_pc' = "loop"
    /\ UNCHANGED <<received_packets, arrivals, event_handle_transactions,
                   stop_event>>
    /\ listen_unchanged

\* line 223
ListenEnd ==
    /\ listen_pc = "set_stop"
    /\ stop_event' = TRUE
    /\ listen_pc' = "done"
    /\ UNCHANGED <<received_packets, arrivals, event_check_idle,
                   event_handle_transactions>>
    /\ listen_unchanged

listen ==
    \/ ListenStart \/ ListenLoop \/ ListenTimeout
    \/ (\E d \in LifeDatagrams : ListenRecv(d))
    \/ ListenException \/ ListenSetTx \/ ListenSetIdle \/ ListenEnd

\* lines 232-233, called by the application on a pool that listens (before
\* listen() no thread waits for the event, and listen() starts them all at once)
stop ==
    /\ listen_pc # "new"
    /\ ~ stop_event
    /\ stop_event' = TRUE
    /\ UNCHANGED <<queue_vars, map_vars, tx_vars, filter_vars, log_vars,
                   workers, is_running, arrivals, socket_open, ff_pc, dd_pc,
                   ht_pc, listen_pc, idle_vars, stopper_vars,
                   event_check_idle, event_handle_transactions>>

\* ------------------------------------------------------------- __safe_stop
stopper_unchanged ==
    UNCHANGED <<queue_vars, map_vars, tx_vars, filter_vars, log_vars,
                event_vars, arrivals, ff_pc, dd_pc, ht_pc, listen_pc,
                idle_vars>>

\* lines 237-239: the stop event is set, the running flag goes down
StopperWake ==
    /\ stop_pc = "wait"
    /\ stop_event
    /\ is_running' = FALSE
    /\ stop_pc' = "stop"
    /\ stop_i' = 1
    /\ UNCHANGED <<workers, socket_open>>
    /\ stopper_unchanged

\* lines 241-242: stop() on the next worker of the list
StopperStopWorker ==
    /\ stop_pc = "stop"
    /\ IF stop_i <= Len(workers)
       THEN /\ workers' = [workers EXCEPT ![stop_i].stopped = TRUE]
            /\ stop_i' = stop_i + 1
            /\ stop_pc' = "stop"
       ELSE /\ stop_i' = 1
            /\ stop_pc' = "join"
            /\ UNCHANGED workers
    /\ UNCHANGED <<is_running, socket_open>>
    /\ stopper_unchanged

\* lines 244-245: join() on the next worker of the list returns once its
\* thread has ended
StopperJoin ==
    /\ stop_pc = "join"
    /\ IF stop_i <= Len(workers)
       THEN /\ ~ workers[stop_i].alive
            /\ stop_i' = stop_i + 1
            /\ stop_pc' = "join"
       ELSE /\ stop_i' = 0
            /\ stop_pc' = "close"
    /\ UNCHANGED <<workers, is_running, socket_open>>
    /\ stopper_unchanged

\* lines 247-249: the socket is closed and the stopper thread exits
StopperClose ==
    /\ stop_pc = "close"
    /\ socket_open' = FALSE
    /\ stop_pc' = "done"
    /\ UNCHANGED <<workers, is_running, stop_i>>
    /\ stopper_unchanged

safe_stop == StopperWake \/ StopperStopWorker \/ StopperJoin \/ StopperClose

\* ------------------------------------------------------ check_idle_workers
get_idle_time(w) == IF w.idle THEN allowed_idle_time + 1 ELSE 0

\* faulty variant: the size of the list is not looked at
ShouldRetire_AnyIdle(ws, i) == get_idle_time(ws[i]) > allowed_idle_time

\* faulty variant: the last worker may go too
ShouldRetire_AtLeastOne(ws, i) ==
    get_idle_time(ws[i]) > allowed_idle_time /\ Len(ws) >= 1

\* line 118
ShouldRetire(ws, i) ==
    get_idle_time(ws[i]) > allowed_idle_time /\ Len(ws) > 1

\* line 119: the list without its i-th worker
RemoveAt(ws, i) == SubSeq(ws, 1, i - 1) \o SubSeq(ws, i + 1, Len(ws))

idle_unchanged ==
    UNCHANGED <<queue_vars, map_vars, tx_vars, filter_vars, log_vars,
                event_handle_transactions, stop_event, is_running, arrivals,
                socket_open, ff_pc, dd_pc, ht_pc, listen_pc, stopper_vars>>

\* lines 112-115: the event is set; the loop ends when the pool has stopped
CiWait ==
    /\ ci_pc = "wait"
    /\ event_check_idle
    /\ ci_pc' = IF is_running THEN "iter" ELSE "done"
    /\ ci_i' = 1
    /\ UNCHANGED <<workers, retired, event_check_idle>>
    /\ idle_unchanged

\* lines 117-120: one turn of the for loop over the list; the iterator keeps
\* its index when the list shrinks
CiIter ==
    /\ ci_pc = "iter"
    /\ IF ci_i <= Len(workers)
       THEN /\ IF ShouldRetire(workers, ci_i)
               THEN /\ workers' = RemoveAt(workers, ci_i)
                    /\ retired' = retired \cup
                           {[workers[ci_i] EXCEPT !.stopped = TRUE]}
               ELSE UNCHANGED <<workers, retired>>
            /\ ci_i' = ci_i + 1
            /\ ci_pc' = "iter"
       ELSE /\ ci_pc' = "clear"
            /\ UNCHANGED <<workers, retired, ci_i>>
    /\ UNCHANGED event_check_idle
    /\ idle_unchanged

\* the same turn in two steps, for the threads that run between the test and
\* the removal.  Lines 117-118: the next worker of the list and the test
CiTest ==
    /\ ci_pc = "iter"
    /\ IF ci_i <= Len(workers)
       THEN IF ShouldRetire(workers, ci_i)
            THEN /\ ci_pc' = "remove"
                 /\ UNCHANGED ci_i
            ELSE /\ ci_pc' = "iter"
                 /\ ci_i' = ci_i + 1
       ELSE /\ ci_pc' = "clear"
            /\ UNCHANGED ci_i
    /\ UNCHANGED <<workers, retired, event_check_idle>>
    /\ idle_unchanged

\* lines 119-120: the worker is removed from the list and stopped
CiRemove ==
    /\ ci_pc = "remove"
    /\ workers' = RemoveAt(workers, ci_i)
    /\ retired' = retired \cup {[workers[ci_i] EXCEPT !.stopped = TRUE]}
    /\ ci_i' = ci_i + 1
    /\ ci_pc' = "iter"
    /\ UNCHANGED event_check_idle
    /\ idle_unchanged

\* line 122
CiClear ==
    /\ ci_pc = "clear"
    /\ event_check_idle' = FALSE
    /\ ci_pc' = "wait"
    /\ UNCHANGED <<workers, retired, ci_i>>
    /\ idle_unchanged

check_idle_workers == CiWait \/ CiIter \/ CiClear

\* lines 110-122, with the turn of the loop in two steps
check_idle_steps == CiWait \/ CiTest \/ CiRemove \/ CiClear

\* ------------------------------------------------------ handle_transactions
ht_unchanged ==
    UNCHANGED <<event_check_idle, stop_event, socket_open, listen_pc,
                idle_vars, stopper_vars>>

\* faulty variant: the wait does not return when the event is set by a nudge
\* that came before the wait began
HtWait_MissedNudge ==
    /\ ht_pc = "wait"
    /\ event_handle_transactions
    /\ listen_pc = "set_idle"
    /\ ht_pc' = "solve"
    /\ UNCHANGED <<queue_vars, map_vars, tx_vars, filter_vars, log_vars,
                   workers, is_running, arrivals, ff_pc, dd_pc,
                   event_handle_transactions>>
    /\ ht_unchanged

\* line 127
HtWait ==
    /\ ht_pc = "wait"
    /\ event_handle_transactions
    /\ ht_pc' = "solve"
    /\ UNCHANGED <<queue_vars, map_vars, tx_vars, filter_vars, log_vars,
                   workers, is_running, arrivals, ff_pc, dd_pc,
                   event_handle_transactions>>
    /\ ht_unchanged

\* line 128
HtSolve ==
    /\ ht_pc = "solve"
    /\ \E due \in SUBSET transactions : solve_transactions(due)
    /\ ht_pc' = "clear"
    /\ UNCHANGED event_handle_transactions
    /\ ht_unchanged

\* line 129
HtClear ==
    /\ ht_pc = "clear"
    /\ event_handle_transactions' = FALSE
    /\ ht_pc' = "wait"
    /\ UNCHANGED <<queue_vars, map_vars, tx_vars, filter_vars, log_vars,
                   workers, is_running, arrivals, ff_pc, dd_pc>>
    /\ ht_unchanged

handle_transactions == HtWait \/ HtSolve \/ HtClear

\* -------------------------------------------------------------- CoapWorker
worker_unchanged ==
    UNCHANGED <<queue_vars, map_vars, tx_vars, filter_vars, log_vars,
                is_running, arrivals, ff_pc, dd_pc, life_vars>>

\* the worker has had nothing to do for longer than allowed_idle_time
WorkerIdle(i) ==
    /\ i \in DOMAIN workers
    /\ workers[i].queue = <<>>
    /\ ~ workers[i].idle
    /\ workers' = [workers EXCEPT ![i].idle = TRUE]
    /\ worker_unchanged

\* a stopped worker ends once its queue is drained
WorkerExit(i) ==
    /\ i \in DOMAIN workers
    /\ workers[i].stopped
    /\ workers[i].alive
    /\ workers[i].queue = <<>>
    /\ workers' = [workers EXCEPT ![i].alive = FALSE]
    /\ worker_unchanged

\* ---------------------------------------------------------------- LifeSpec
\* the whole life of the pool: construction, listen(), the service threads,
\* stop() and the stopper
LifeNext ==
    \/ listen
    \/ stop
    \/ safe_stop
    \/ check_idle_workers
    \/ handle_transactions
    \/ FilterStart \/ FilterGet \/ FilterConAck \/ FilterConPut
    \/ DedupStart \/ DedupGet \/ DedupSubmit \/ DedupInsert
    \/ \E i \in 1..MaxLifeDatagrams :
           \/ WorkerRun(i, FALSE, FALSE)
           \/ WorkerIdle(i)
           \/ WorkerExit(i)

\* every thread that can take a step eventually takes one
LifeFairness ==
    /\ WF_vars(listen)
    /\ WF_vars(safe_stop)
    /\ WF_vars(check_idle_workers)
    /\ WF_vars(handle_transactions)
    /\ WF_vars(FilterStart \/ FilterGet \/ FilterConAck \/ FilterConPut)
    /\ WF_vars(DedupStart \/ DedupGet \/ DedupSubmit \/ DedupInsert)
    /\ \A i \in 1..MaxLifeDatagrams :
           WF_vars(WorkerRun(i, FALSE, FALSE) \/ WorkerExit(i))

LifeSpec == LifeInit /\ [][LifeNext]_vars /\ LifeFairness

\* ---------------------------------------------------------------- ListSpec
\* _choose_worker and one pass of check_idle_workers on a given worker list
\* workers of the list at the start
MaxListWorkers == 3

\* a queue that holds max_queue_size tasks
FullQueue == [k \in 1..max_queue_size |-> GET_CON]

\* what a worker of the list may look like: fresh, idle for too long, with one
\* task, heavily loaded, with a full queue
WorkerShapes(id) ==
    { Worker(id),
      [Worker(id) EXCEPT !.idle = TRUE],
      [Worker(id) EXCEPT !.queue = <<GET_CON>>],
      [Worker(id) EXCEPT !.queue = <<GET_CON>>, !.heavy = TRUE],
      [Worker(id) EXCEPT !.queue = FullQueue] }

WorkerLists ==
    UNION { {ws \in [1..n -> UNION {WorkerShapes(id) : id \in 1..n}] :
                \A i \in 1..n : ws[i].id = i} : n \in 0..MaxListWorkers }

\* a serving pool whose list holds the given workers; listen has nudged the
\* worker-lifecycle event
ListInit ==
    /\ workers \in WorkerLists
    /\ created = Len(workers)
    /\ event_check_idle = TRUE
    /\ received_packets = <<>>
    /\ valid_coap_packets = <<>>
    /\ short_term_shared_work = {}
    /\ long_term_shared_work = {}
    /\ failed_requests = {}
    /\ is_running = TRUE
    /\ CURRENT_TOKEN = -1
    /\ transactions = {}
    /\ failed_overall = {}
    /\ event_handle_transactions = FALSE
    /\ stop_event = FALSE
    /\ socket_open = TRUE
    /\ ff_packet = None
    /\ dd_packet = None
    /\ dd_worker = 0
    /\ ci_i = 0
    /\ stop_i = 0
    /\ wire = EmptyBag
    /\ submitted = <<>>
    /\ filtered = <<>>
    /\ deduped = <<>>
    /\ started = <<>>
    /\ removed = {}
    /\ reset_transactions = {}
    /\ retired = {}
    /\ arrivals = 0
    /\ internals = 0
    /\ it_pc = [t \in Callers |-> "idle"]
    /\ it_reg = [t \in Callers |-> -1]
    /\ it_tok = [t \in Callers |-> None]
    /\ it_worker = [t \in Callers |-> 0]
    /\ tokens = <<>>
    /\ listen_pc = "select"
    /\ ff_pc = "get"
    /\ dd_pc = "get"
    /\ ht_pc = "wait"
    /\ ci_pc = "wait"
    /\ stop_pc = "wait"

\* lines 98-107: _choose_worker is called on the list
ChooseWorker ==
    /\ dd_worker = 0
    /\ dd_worker' = choose_worker_index(workers)
    /\ workers' = choose_worker_list(workers, created + 1)
    /\ created' = created + Len(workers') - Len(workers)
    /\ UNCHANGED <<valid_coap_packets, short_term_shared_work,
                   long_term_shared_work, dd_pc, dd_packet, submitted,
                   deduped>>
    /\ dd_unchanged

ListNext == ChooseWorker \/ check_idle_workers

ListSpec == ListInit /\ [][ListNext]_vars

\* ---------------------------------------------------------------- PoolSpec
\* the worker list under all its users: the deduplication thread, a caller of
\* handle_internal_task, the idle check and the stopper
\* datagrams the socket delivers in one behaviour of PoolSpec
MaxPoolDatagrams == 1
\* calls of handle_internal_task in one behaviour of PoolSpec
MaxPoolCalls == 1

\* the pool while it serves, listen() at the test of its loop
PoolInit ==
    /\ Constructed
    /\ listen_pc = "loop"
    /\ ff_pc = "get"
    /\ dd_pc = "get"
    /\ ht_pc = "wait"
    /\ ci_pc = "wait"
    /\ stop_pc = "wait"

\* lines 212-216 with the bound of PoolSpec
PoolRecv(d) ==
    /\ arrivals < MaxPoolDatagrams
    /\ listen_pc = "select"
    /\ socket_open
    /\ arrivals' = arrivals + 1
    /\ received_packets' = Append(received_packets, d)
    /\ listen_pc' = "set_tx"
    /\ UNCHANGED event_vars
    /\ listen_unchanged

PoolNext ==
    \/ ListenLoop \/ ListenTimeout \/ (\E d \in LifeDatagrams : PoolRecv(d))
    \/ ListenException \/ ListenSetTx \/ ListenSetIdle \/ ListenEnd
    \/ stop
    \/ safe_stop
    \/ check_idle_steps
    \/ FilterGet \/ FilterConAck \/ FilterConPut
    \/ DedupGet \/ DedupSubmit \/ DedupInsert
    \/ ItCall(1, MaxPoolCalls) \/ internal_task_steps(1)
    \/ \E i \in 1..(MaxPoolDatagrams + MaxPoolCalls) :
           \/ WorkerRun(i, FALSE, FALSE)
           \/ WorkerIdle(i)
           \/ WorkerExit(i)

PoolSpec == PoolInit /\ [][PoolNext]_vars

\* the worker list while the pool runs: creation by the deduplication thread
\* and by a caller of handle_internal_task against retirement by the idle check
RetireNext ==
    \/ ListenLoop \/ ListenTimeout \/ (\E d \in LifeDatagrams : PoolRecv(d))
    \/ ListenSetTx \/ ListenSetIdle
    \/ check_idle_steps
    \/ FilterGet \/ FilterConAck \/ FilterConPut
    \/ DedupGet \/ DedupSubmit \/ DedupInsert
    \/ ItCall(1, MaxPoolCalls) \/ internal_task_steps(1)
    \/ \E i \in 1..(MaxPoolDatagrams + MaxPoolCalls) :
           WorkerRun(i, FALSE, FALSE) \/ WorkerIdle(i)

RetireSpec == PoolInit /\ [][RetireNext]_vars

\* ================================================================== claims
Count(seq, x) == Cardinality({k \in DOMAIN seq : seq[k] = x})
\* the datagram is well-formed: version 1 and valid type, code and options
WellFormed(p) ==
    /\ p.version = 1
    /\ p.message_type \in {"CON", "NON", "ACK", "RST"}
    /\ CoapCodeFormat_is_valid(p.code)
    /\ CoapOptionDelta_is_valid(p.option)
ConDatagrams == {d \in Datagrams \cup TxDatagrams :
                    WellFormed(d) /\ d.message_type = "CON"}
\* the packet sent echoes the peer, token and message id of p
Echoes(sent, p) ==
    sent.to = p.peer /\ sent.token = p.token /\ sent.message_id = p.message_id
\* how many datagrams of the wire satisfy Sel
Sent(Sel(_)) ==
    BagCardinality([m \in {x \in BagToSet(wire) : Sel(x)} |-> wire[m]])

\* C1: for every short_term_work_id, at most one task carrying that id is
\* ever submitted to a worker by deduplication_filter.
C1_OneTaskPerShortTermId ==
    \A d \in ConDatagrams :
        Cardinality({k \in DOMAIN submitted :
            short_term_work_id(submitted[k]) = short_term_work_id(d)}) <= 1

\* the packets deduplication_filter has taken are all copies of d
OnlyCopiesOf(d) ==
    /\ deduped # <<>>
    /\ \A k \in DOMAIN deduped : deduped[k].packet = d

Answerable(p) ==
    {k \in DOMAIN filtered :
        /\ WellFormed(filtered[k].packet)
        /\ filtered[k].packet.message_type = "CON"
        /\ ~ filtered[k].failed
        /\ Echoes([to |-> filtered[k].packet.peer,
                   token |-> filtered[k].packet.token,
                   message_id |-> filtered[k].packet.message_id], p)}
AcksEchoing(p) ==
    LET Sel(m) == m.message_type = "ACK" /\ Echoes(m, p) IN Sent(Sel)

\* C3: every well-formed CON whose overall transaction is not failed is
\* answered with exactly one ACK echoing its token and message id, duplicates
\* included: n such CONs taken by the filter, n ACKs on the wire.
C3_OneAckPerCon ==
    \A p \in ConDatagrams : AcksEchoing(p) = Cardinality(Answerable(p))

\* two copies of a CON were taken, two ACKs went out, one copy was dropped
\* as a duplicate
C3_Witness ==
    \E p \in ConDatagrams :
        /\ Cardinality(Answerable(p)) = 2
        /\ AcksEchoing(p) = 2
        /\ \E k \in DOMAIN deduped :
               deduped[k].op = "drop" /\ deduped[k].packet = p

\* copies of p that have left the format filter for the deduplication stage
Forwarded(p) ==
    Count(valid_coap_packets, p)
    + (IF dd_pc = "check" /\ dd_packet = p THEN 1 ELSE 0)
    + Cardinality({k \in DOMAIN deduped : deduped[k].packet = p})

\* C4: the ACK of a CON is on the wire before the packet is queued for
\* deduplication, hence before its task is submitted to or run by a worker.
C4_AckBeforeTask ==
    \A p \in ConDatagrams :
        /\ AcksEchoing(p) >= Forwarded(p)
        /\ Count(submitted, p) <= Forwarded(p)
        /\ Count(started, p) <= Count(submitted, p)

\* a worker has started the task of a CON whose ACK is on the wire
C4_Witness ==
    \E p \in ConDatagrams : Count(started, p) >= 1 /\ AcksEchoing(p) >= 1

\* C5: a datagram that fails format verification gets exactly one reply with
\* code 5.00 echoing its token and message id, and the step creates no state:
\* nothing is queued, no task is submitted, no shared-work entry is inserted,
\* the transaction pool is left alone.
C5_InvalidFormatReply ==
    [][(ff_pc = "verify" /\ ~ WellFormed(ff_packet) /\ ff_pc' # ff_pc)
        => /\ wire' = wire (+) SetToBag({
                 [message_type |-> "RST", code |-> "INTERNAL_SERVER_ERROR",
                  token |-> ff_packet.token,
                  message_id |-> ff_packet.message_id,
                  payload |-> None, to |-> ff_packet.peer]})
           /\ UNCHANGED <<valid_coap_packets, submitted, workers,
                          short_term_shared_work, long_term_shared_work,
                          failed_requests, transactions, failed_overall>>]_vars

\* a malformed datagram was taken and its 5.00 reply is on the wire
C5_Witness ==
    \E k \in DOMAIN filtered :
        LET p == filtered[k].packet
            Sel(m) == m.code = "INTERNAL_SERVER_ERROR" /\ Echoes(m, p) IN
        /\ ~ WellFormed(p)
        /\ Sent(Sel) >= 1

\* C6 (as stated): in every state in which the running flag is true, from
\* construction on, the worker list holds at least one worker.
C6_AlwaysOneWorker == is_running => Len(workers) >= 1

\* C6 (amended): the worker list is empty at construction; in every state in
\* which the running flag is true and a first worker has been created, the
\* worker list holds at least one worker.
C6_OneWorkerOnceCreated ==
    (is_running /\ created >= 1) => Len(workers) >= 1

\* the idle check has passed over the only worker, which is idle, and kept it
C6_Witness ==
    /\ is_running
    /\ ci_pc = "iter"
    /\ ci_i = 2
    /\ Len(workers) = 1
    /\ get_idle_time(workers[1]) > allowed_idle_time

\* the blocks of one block-wise download
Blocks == {BLOCK_0, BLOCK_1, BLOCK_2}

\* C7: in a block-wise download (2.05 CONTENT CONs with Block2 NUM = 0, 1, 2,
\* same peer and token, distinct message ids) every block deduplication_filter
\* takes is submitted exactly once: a first copy is submitted, a retry dropped.
C7_EveryBlockSubmittedOnce ==
    (\A k \in DOMAIN deduped : deduped[k].packet \in Blocks)
        => \A b \in Blocks :
               (\E k \in DOMAIN deduped : deduped[k].packet = b)
                   => Count(submitted, b) = 1

\* the CON re-sends of packet p on the wire
Resent(p) ==
    LET Sel(m) == m.message_type = "CON" /\ Echoes(m, p) IN Sent(Sel)
\* the requests handle_internal_task can have registered
InternalTasks ==
    {[InternalTask(7 + n) EXCEPT !.token = n] : n \in 0..(MaxInternal - 1)}
\* a RST has been taken by coap_format_filter and fully processed
RstProcessed(g) ==
    \E k \in DOMAIN filtered :
        /\ WellFormed(filtered[k].packet)
        /\ filtered[k].packet.message_type = "RST"
        /\ general_work_id(filtered[k].packet) = g

\* C8 (as stated): once a RST with general_work_id g has been processed, no
\* solve_transactions() tick re-sends a transaction whose general_work_id is g.
C8_NoResendAfterRst ==
    [][\A p \in InternalTasks :
          RstProcessed(general_work_id(p)) => Resent(p)' = Resent(p)]_vars

\* C8 (amended): once a RST with general_work_id g has been processed, the
\* transactions of g that were registered by then are out of the pool and no
\* solve_transactions() tick re-sends them.
C8_NoResendOfResetTransactions ==
    [][/\ \A p \in reset_transactions : Resent(p)' = Resent(p)
       /\ \A t \in transactions' : t.packet \notin reset_transactions']_vars

\* a transaction that had been re-sent was reset by a RST
C8_Witness ==
    /\ ff_pc = "get"
    /\ \E p \in reset_transactions :
           Resent(p) >= 1 /\ RstProcessed(general_work_id(p))

\* C9: a CON registered with add_transaction goes on the wire at most
\* MAX_RETRANSMIT + 1 times, the initial send included.
C9_TransmissionBudget ==
    \A p \in InternalTasks : 1 + Resent(p) <= MAX_RETRANSMIT + 1

\* the shutdown is complete: flag down, socket closed, every loop has ended
ShutdownComplete ==
    /\ ~ is_running
    /\ ~ socket_open
    /\ listen_pc = "done"
    /\ ff_pc = "done"
    /\ dd_pc = "done"
    /\ ht_pc = "done"
    /\ ci_pc = "done"

\* C10: after stop() on a pool whose listen() is running, under fair
\* scheduling the shutdown eventually completes: the running flag is false,
\* the socket is closed and every service loop has terminated.
C10_ShutdownCompletes ==
    (stop_event /\ listen_pc # "new") ~> ShutdownComplete

\* the tokens handle_internal_task has handed out, in the order of the returns
Handed == [k \in DOMAIN tokens |-> tokens[k].bytes]

\* C12: tokens assigned by handle_internal_task are unique across concurrent
\* internal requests; no two calls receive the same token, and the tokens of
\* successive calls are strictly increasing.
C12_TokensUniqueAndIncreasing ==
    \A i, j \in DOMAIN tokens :
        i < j => /\ ~ tokens[i].raised
                 /\ ~ tokens[j].raised
                 /\ Handed[i][1] < Handed[j][1]

\* C18: the token counter wraps after 256 values; the 257th call of the token
\* generator succeeds and returns the 1-byte token of the first call.
C18_CounterWraps ==
    257 \in DOMAIN tokens =>
        /\ ~ tokens[257].raised
        /\ tokens[257].bytes = tokens[1].bytes

\* the workers _choose_worker may pick: not heavily loaded, room in the queue
Eligible(ws) ==
    {i \in DOMAIN ws : ~ ws[i].heavy /\ Len(ws[i].queue) < max_queue_size}

\* C13: _choose_worker returns a worker with minimal queue size among the
\* workers that are not heavily loaded and whose queue is below
\* max_queue_size; it creates, starts and appends a new worker exactly when no
\* worker qualifies, and then returns the new worker.
C13_ChoosesLeastLoaded ==
    [][dd_worker' # dd_worker =>
         IF Eligible(workers) # {}
         THEN /\ workers' = workers
              /\ dd_worker' \in Eligible(workers)
              /\ \A j \in Eligible(workers) :
                     Len(workers[dd_worker'].queue) <= Len(workers[j].queue)
         ELSE /\ Len(workers') = Len(workers) + 1
              /\ SubSeq(workers', 1, Len(workers)) = workers
              /\ dd_worker' = Len(workers')
              /\ workers'[dd_worker'].alive
              /\ workers'[dd_worker'].queue = <<>>
              /\ \A i \in DOMAIN workers :
                     workers'[dd_worker'].id # workers[i].id]_vars

\* _choose_worker has passed over an eligible worker with a longer queue
C13_Witness ==
    /\ dd_worker = 2
    /\ Len(workers) = 3
    /\ Eligible(workers) = {1, 2}
    /\ Len(workers[1].queue) > Len(workers[2].queue)

\* C14: after one pass of check_idle_workers over any worker list, either
\* exactly one worker remains or no remaining worker has
\* get_idle_time() > allowed_idle_time; every worker the pass removed has had
\* stop() called.
C14_PassRetiresEveryIdleWorker ==
    ci_pc = "clear" =>
        /\ \/ Len(workers) = 1
           \/ \A i \in DOMAIN workers : ~ workers[i].idle
        /\ \A w \in retired : w.stopped

\* the format filter has just taken a well-formed CON whose overall
\* transaction was reported failed
FailedConTaken(log) ==
    /\ log # <<>>
    /\ log[Len(log)].failed
    /\ log[Len(log)].packet.message_type = "CON"
    /\ WellFormed(log[Len(log)].packet)

\* C16: a well-formed CON whose overall transaction is reported failed by
\* is_overall_transaction_failed is dropped with no effect; no ACK is sent,
\* the packet is not put on the validated-packet queue, and no shared-work
\* entry or worker task results from it.
C16_FailedConDropped ==
    [][(filtered' # filtered /\ FailedConTaken(filtered')) =>
          /\ wire' = wire
          /\ valid_coap_packets' = valid_coap_packets
          /\ ff_pc' # "put"
          /\ short_term_shared_work' = short_term_shared_work
          /\ long_term_shared_work' = long_term_shared_work
          /\ workers' = workers
          /\ submitted' = submitted]_vars

\* a CON of a failed overall transaction has been taken and dropped
C16_Witness ==
    /\ FailedConTaken(filtered)
    /\ ff_pc = "get"
    /\ filtered[Len(filtered)].packet = GET_CON
    /\ general_work_id(GET_CON) \in failed_overall

\* C17: while the pool is running the transaction tick is live; every nudge of
\* the transaction-tick event by the listen loop is eventually followed by a
\* call of solve_transactions(), and solve_transactions() is called infinitely
\* often under fair scheduling.
C17_TickIsLive ==
    /\ (listen_pc = "set_idle") ~> (ht_pc = "solve" \/ ~ is_running)
    /\ []<>(ht_pc = "solve" \/ ~ is_running)

\* the listen loop has nudged the event while handle_transactions was between
\* solve_transactions() and clear(): this nudge is about to be cleared
C17_Witness ==
    /\ is_running
    /\ listen_pc = "set_idle"
    /\ event_handle_transactions
    /\ ht_pc = "clear"

\* a caller of handle_internal_task is inside _create_worker: its worker is
\* started and not yet in the list
InCreateWorker == \E t \in Callers : it_pc[t] = "append"
\* check_idle_workers is inside its for loop over the list
IdleCheckIterates == ci_pc \in {"iter", "remove"} /\ ci_i <= Len(workers)
\* check_idle_workers is about to remove the worker it tested
IdleCheckRemoves == ci_pc = "remove"
\* __safe_stop is inside one of its for loops over the list
StopperIterates == stop_pc \in {"stop", "join"} /\ stop_i <= Len(workers)

\* C11: accesses to the worker list and to the shared-work maps are mutually
\* exclusive across threads; in no reachable state is one thread iterating
\* over the structure (check_idle_workers, __safe_stop) while another thread
\* is in the middle of mutating it (_create_worker, the removal of
\* check_idle_workers).
C11_MutualExclusion ==
    /\ ~ (InCreateWorker /\ (IdleCheckIterates \/ StopperIterates))
    /\ ~ (IdleCheckRemoves /\ StopperIterates)

\* C15: idle retirement never removes the last worker; once the worker list is
\* non-empty, no step, under any interleaving of check_idle_workers with worker
\* creation by the deduplication thread or handle_internal_task, makes the
\* list empty while the pool is running.
C15_RetirementKeepsLastWorker ==
    [][(Len(workers) > 0 /\ is_running) => Len(workers') > 0]_vars

\* a pass has retired a worker and has left the last one although it is idle
\* for longer than allowed_idle_time
C15_Witness ==
    /\ is_running
    /\ ci_pc = "clear"
    /\ retired # {}
    /\ Len(workers) = 1
    /\ workers[1].idle

\* the workers stop() has been called on: in the list or retired from it
StoppedIds(ws, ret) ==
    {ws[i].id : i \in {k \in DOMAIN ws : ws[k].stopped}}
        \cup {w.id : w \in {r \in ret : r.stopped}}

\* C19: when shutdown completes (the stopper has closed the socket), every
\* worker that was ever created and started has had stop() called on it, and
\* no worker is created after the stopper has begun stopping workers.
C19_EveryWorkerStopped ==
    [][/\ created' > created => stop_pc = "wait"
       /\ stop_pc' = "done" => (1..created') \subseteq StoppedIds(workers', retired')]_vars

\* C20: a new worker is created only when no existing worker qualifies for
\* selection; across any sequence of deduplication submissions and
\* handle_internal_task calls, the worker count never grows while an eligible
\* worker exists.
C20_CreatesOnlyWhenNoneEligible ==
    [][Len(workers') > Len(workers) => Eligible(workers) = {}]_vars

====
